---- MODULE Spec2Model ----
(***************************************************************************)
(* Model of CrawleeNode.execute (nodes/CrawleeNode/CrawleeNode.node.ts):   *)
(* the per-item loop, the three operation branches with their crawler      *)
(* options and request handlers, the catch / finally blocks, and the pure  *)
(* helpers (cache-busting suffix, href resolution, de-duplication,         *)
(* truncation).  Strings are TLA+ strings; sequences are 1-based while     *)
(* itemIndex keeps the 0-based value of the source.                        *)
(***************************************************************************)
EXTENDS Integers, Sequences, FiniteSets, TLC

(* ------------------------------ bounds --------------------------------- *)
\* number of input items handed to execute by the host
MaxItems == 2
\* ceiling on the length of the items array (it grows in the catch block)
MaxLen == 2
\* largest maxDepth value the host supplies (the smallest is 0)
MaxDepth == 3
\* number of anchors on a fetched page (PageHrefLists)
MaxHrefs == 3
\* fetch retries the dispatcher may spend on the seed request
MaxRetries == 1
\* how far around a cap the truncation inputs range
Slack == 3
\* short truncation inputs: lengths 0..SmallLen
SmallLen == 2

(* ----------------------- program constants ----------------------------- *)
TextCap == 50000
HtmlCap == 100000
LinksRequestCap == 100
RequestsPerDepth == 50
LinksConcurrency == 5
SingleConcurrency == 1
SingleRequests == 1
HandlerTimeoutSecs == 30

(* --------------------------- string helpers ---------------------------- *)
RECURSIVE Rep(_, _)
Rep(s, n) ==
    IF n <= 0 THEN ""
    ELSE IF n % 2 = 1 THEN Rep(s, n - 1) \o s
    ELSE LET h == Rep(s, n \div 2) IN h \o h

CharAt(s, i) == SubSeq(s, i, i)

\* String.prototype.includes for a one-character needle
Includes(s, c) == \E i \in 1..Len(s) : CharAt(s, i) = c

StartsWith(s, p) == Len(s) >= Len(p) /\ SubSeq(s, 1, Len(p)) = p

\* position of the first occurrence of character c at or after from, 0 if none
RECURSIVE IndexFrom(_, _, _)
IndexFrom(s, c, from) ==
    IF from > Len(s) THEN 0
    ELSE IF CharAt(s, from) = c THEN from
    ELSE IndexFrom(s, c, from + 1)

\* position of the last occurrence of character c at or before upto, 0 if none
RECURSIVE LastIndexUpto(_, _, _)
LastIndexUpto(s, c, upto) ==
    IF upto < 1 THEN 0
    ELSE IF CharAt(s, upto) = c THEN upto
    ELSE LastIndexUpto(s, c, upto - 1)

Min(a, b) == IF a < b THEN a ELSE b

\* String.prototype.substring(0, n)
Substring0(s, n) == SubSeq(s, 1, Min(n, Len(s)))

RECURSIVE TrimLeft(_)
TrimLeft(s) ==
    IF Len(s) > 0 /\ CharAt(s, 1) = " " THEN TrimLeft(SubSeq(s, 2, Len(s))) ELSE s

RECURSIVE TrimRight(_)
TrimRight(s) ==
    IF Len(s) > 0 /\ CharAt(s, Len(s)) = " " THEN TrimRight(SubSeq(s, 1, Len(s) - 1)) ELSE s

\* String.prototype.trim
Trim(s) == TrimRight(TrimLeft(s))

(* ------------------------- appendTimestampToUrl ------------------------ *)
\* a value Date.now() returns
Times == {1730000000}

appendTimestampToUrl(u, now) ==
    LET separator == IF Includes(u, "?") THEN "&" ELSE "?"
    IN u \o separator \o "_=" \o ToString(now)

(* ----------------------- new URL(href, base).href ---------------------- *)
IsAbsolute(h) == StartsWith(h, "https://") \/ StartsWith(h, "http://")

\* index of the first character after "scheme://"
HostStart(u) == IndexFrom(u, "/", 1) + 2

\* scheme://host of an absolute URL
Origin(u) ==
    LET p == IndexFrom(u, "/", HostStart(u))
    IN IF p = 0 THEN u ELSE SubSeq(u, 1, p - 1)

\* host of an absolute URL
Host(u) == SubSeq(Origin(u), HostStart(u), Len(Origin(u)))

\* the URL up to (not including) its query
BeforeQuery(u) ==
    LET q == IndexFrom(u, "?", 1)
    IN IF q = 0 THEN u ELSE SubSeq(u, 1, q - 1)

\* the URL up to (not including) its fragment
BeforeFragment(u) ==
    LET f == IndexFrom(u, "#", 1)
    IN IF f = 0 THEN u ELSE SubSeq(u, 1, f - 1)

\* the URL up to and including the last "/" of its path
Directory(u) ==
    LET p == BeforeQuery(BeforeFragment(u))
    IN SubSeq(p, 1, LastIndexUpto(p, "/", Len(p)))

\* <<href>> of the resolved URL, or <<>> when the URL constructor throws
NewURLHref(href, base) ==
    IF IsAbsolute(href)
    THEN IF Host(href) = "" \/ Includes(Host(href), "[") \/ Includes(Host(href), " ")
         THEN <<>>
         ELSE IF Len(href) = Len(Origin(href)) THEN <<href \o "/">> ELSE <<href>>
    ELSE IF StartsWith(href, "/") THEN <<Origin(base) \o href>>
    ELSE IF StartsWith(href, "#") THEN <<BeforeFragment(base) \o href>>
    ELSE IF StartsWith(href, "?") THEN <<BeforeQuery(BeforeFragment(base)) \o href>>
    ELSE <<Directory(base) \o href>>

\* variant: an href new URL rejects ends the handler, the links found so far
\* are lost
PushHrefOrLose(links, href, base) ==
    IF href = "" THEN links
    ELSE IF NewURLHref(href, base) = <<>> THEN <<>>
    ELSE links \o NewURLHref(href, base)

\* the each() callback of the links handler: links after visiting one anchor
PushHref(links, href, base) ==
    IF href # "" THEN links \o NewURLHref(href, base) ELSE links

\* $('a[href]').each(...): the links array after visiting every anchor
RECURSIVE CollectLinks(_, _, _)
CollectLinks(hrefs, base, links) ==
    IF hrefs = <<>> THEN links
    ELSE CollectLinks(Tail(hrefs), base, PushHref(links, Head(hrefs), base))

(* ------------------ [...new Set(crawledData.flatMap(...))] ------------- *)
RECURSIVE FlatMapLinks(_)
FlatMapLinks(data) ==
    IF data = <<>> THEN <<>> ELSE Head(data).links \o FlatMapLinks(Tail(data))

InSeq(x, s) == \E i \in 1..Len(s) : s[i] = x

\* a Set keeps the first insertion of each value, in insertion order
RECURSIVE SetInsertAll(_, _)
SetInsertAll(acc, s) ==
    IF s = <<>> THEN acc
    ELSE SetInsertAll(IF InSeq(Head(s), acc) THEN acc ELSE Append(acc, Head(s)), Tail(s))

\* variant: the flattened links without the Set
FlattenedLinks(data) == FlatMapLinks(data)

UniqueLinks(data) == SetInsertAll(<<>>, FlatMapLinks(data))

(* ------------------------------ truncation ----------------------------- *)
\* variant: the marker is also appended at exactly the cap
TruncateAtCap(s, cap) == IF Len(s) >= cap THEN Substring0(s, cap) \o "..." ELSE s

Truncate(s, cap) == IF Len(s) > cap THEN Substring0(s, cap) \o "..." ELSE s

truncatedText(bodyText) == Truncate(Trim(bodyText), TextCap)

truncatedHtml(body) == Truncate(body, HtmlCap)

(* ------------------------------- state --------------------------------- *)
VARIABLES
    continueOnFail,  \* this.continueOnFail(), fixed by the host for the execution
    nInput,          \* number of items the host supplied
    items,           \* the array returned by this.getInputData()
    returnData,      \* the output array
    itemIndex,       \* loop counter (0-based)
    pc,              \* position of execute
    crawler,         \* <<>> for null, <<options>> for a constructed crawler
    url,             \* url / originalUrl of the current iteration
    operation,       \* operation of the current iteration
    maxDepth,        \* <<d>> once the extractLinks branch has read maxDepth
    pending,         \* the dispatcher's queue: requests not fetched yet
    requestUrl,      \* request.url of the request being fetched and handled
    page,            \* the href values of the anchors of the fetched page
    crawledData,     \* accumulator of the links handler
    error,           \* <<e>> once an error reached the catch block
    thrown,          \* <<e>> when the catch block throws
    raised,          \* <<e>> once execute has rejected
    output,          \* <<returnData>> once execute has returned
    attempts,        \* fetch attempts of the current run
    constructed,     \* per item: crawlers constructed
    teardownCalls,   \* per item: crawler.teardown() invocations
    fetchCalls,      \* fetches issued in the iteration begun last
    fetched,         \* indices of the items for which a fetch was issued
    pushes,          \* per item: success records pushed to returnData
    flags,           \* what happened in the iteration begun last
    failed,          \* indices of the items whose error reached the catch block
    tKind, tIn, tOut, tpc  \* truncation of one body, on its own

vars == <<continueOnFail, nInput, items, returnData, itemIndex, pc, crawler, url,
          operation, maxDepth, pending, requestUrl, page, crawledData, error, thrown, raised,
          output, attempts, constructed, teardownCalls, fetchCalls, pushes, flags, failed, fetched, tKind, tIn, tOut, tpc>>

truncVars == <<tKind, tIn, tOut, tpc>>

Indices == 0..(MaxLen - 1)

(* ------------------------- inputs from the host ------------------------ *)
Urls == {"", "https://x.test/"}
\* seed urls and anchors of the runs that look at one extractLinks item only
PageUrls == {"https://x.test/", "https://x.test/d/p?q=1"}
PageHrefs == {"", "/a", "https://x.test/a", "https://y.test", "b", "http://["}
PageHrefLists == UNION {[1..k -> PageHrefs] : k \in 0..MaxHrefs}
Operations == {"extractLinks", "extractText", "extractHtml", ""}
Depths == 0..MaxDepth
Hrefs == {"", "/a", "https://x.test/a", "http://["}
\* pages with no, one or two anchors
HrefLists == {<<>>} \cup {<<h>> : h \in Hrefs} \cup {<<g, h>> : g, h \in Hrefs}
Bodies == {"", " hi "}
\* context of an error thrown by the crawler library: none, or a foreign one
LibContexts == {<<>>, <<0 - 1>>}

InputItem(k) == [json |-> k, error |-> <<>>, pairedItem |-> <<>>]

(* --------------------------- crawler options --------------------------- *)
\* variant: the budget without the ceiling of 100
LinksMaxRequestsUncapped(depth) == depth * RequestsPerDepth

LinksMaxRequests(depth) == Min(LinksRequestCap, depth * RequestsPerDepth)

LinksCrawler(depth) ==
    [maxRequestsPerCrawl |-> LinksMaxRequests(depth),
     requestHandlerTimeoutSecs |-> HandlerTimeoutSecs,
     useSessionPool |-> FALSE,
     maxConcurrency |-> LinksConcurrency,
     requestHandler |-> "extractLinks"]

SingleCrawler(op) ==
    [maxRequestsPerCrawl |-> SingleRequests,
     requestHandlerTimeoutSecs |-> HandlerTimeoutSecs,
     useSessionPool |-> FALSE,
     maxConcurrency |-> SingleConcurrency,
     requestHandler |-> op]

(* ------------------------------- records ------------------------------- *)
LinksRecord(u, links) ==
    [status |-> "success", message |-> "Crawling finished",
     data |-> [url |-> u, links |-> links]]

TextRecord(u, text) ==
    [status |-> "success", message |-> "Text extraction finished",
     data |-> [url |-> u, text |-> text]]

HtmlRecord(u, html) ==
    [status |-> "success", message |-> "HTML extraction finished",
     data |-> [url |-> u, html |-> html]]

NodeOperationError(msg, idx) == [msg |-> msg, context |-> <<idx>>]

\* variant: the url check is missing
UrlNeverMissing(u) == FALSE

\* if (!url)
UrlMissing(u) == u = ""

\* variant: an error that already has a context keeps its itemIndex
ErrorToThrowKeepContext(e, idx) ==
    IF e.context # <<>> THEN e ELSE NodeOperationError(e.msg, idx)

\* what the catch block throws when continue-on-failure is off
ErrorToThrow(e, idx) ==
    IF e.context # <<>>
    THEN [e EXCEPT !.context = <<idx>>]
    ELSE NodeOperationError(e.msg, idx)

Bump(f, i) == [f EXCEPT ![i] = @ + 1]

(* -------------------------------- Init --------------------------------- *)
TruncIdle == tKind = "" /\ tIn = "" /\ tOut = "" /\ tpc = "off"

Init ==
    /\ continueOnFail \in BOOLEAN
    /\ nInput \in 0..MaxItems
    /\ items = [k \in 1..nInput |-> InputItem(k)]
    /\ returnData = <<>>
    /\ itemIndex = 0
    /\ pc = "loop"
    /\ crawler = <<>>
    /\ url = ""
    /\ operation = ""
    /\ maxDepth = <<>>
    /\ pending = <<>>
    /\ requestUrl = ""
    /\ page = <<>>
    /\ crawledData = <<>>
    /\ error = <<>>
    /\ thrown = <<>>
    /\ raised = <<>>
    /\ output = <<>>
    /\ attempts = 0
    /\ constructed = [i \in Indices |-> 0]
    /\ teardownCalls = [i \in Indices |-> 0]
    /\ fetchCalls = 0
    /\ fetched = {}
    /\ pushes = [i \in Indices |-> 0]
    /\ flags = {}
    /\ failed = {}
    /\ TruncIdle

\* variant: the loop goes on to the next crawler while run() is in progress
InLoopNoAwait == pc \in {"loop", "run"} /\ itemIndex < Len(items)

(* ------------------- loop header and start of the try ------------------ *)
InLoop == pc = "loop" /\ itemIndex < Len(items)

\* the part of an iteration every branch shares: locals of the iteration
BeginIteration(u, op) ==
    /\ InLoop
    /\ url' = u
    /\ operation' = op
    /\ attempts' = 0
    /\ flags' = {"started", op} \cup (IF u = "" THEN {"emptyUrl"} ELSE {})
    /\ fetchCalls' = 0
    /\ UNCHANGED <<continueOnFail, nInput, items, returnData, itemIndex, thrown, raised,
                   output, teardownCalls, pushes, failed, fetched, requestUrl, page,
                   truncVars>>

\* lines 87-94: url is empty, NodeOperationError('URL is required')
StartInvalid(u, op) ==
    /\ UrlMissing(u)
    /\ BeginIteration(u, op)
    /\ crawler' = <<>>
    /\ error' = <<NodeOperationError("URL is required", itemIndex)>>
    /\ pc' = "catch"
    /\ UNCHANGED <<maxDepth, pending, crawledData, constructed>>

\* lines 96-128 up to the await: the extractLinks crawler is built and started
StartLinks(u, d, now) ==
    /\ ~UrlMissing(u)
    /\ BeginIteration(u, "extractLinks")
    /\ crawledData' = <<>>
    /\ maxDepth' = <<d>>
    /\ crawler' = <<LinksCrawler(d)>>
    /\ constructed' = Bump(constructed, itemIndex)
    /\ pending' = <<appendTimestampToUrl(u, now)>>
    /\ pc' = "run"
    /\ UNCHANGED error

\* lines 141-166 / 168-192 up to the await: a single-page crawler is built and started
StartSingle(u, op, now) ==
    /\ ~UrlMissing(u)
    /\ op \in {"extractText", "extractHtml"}
    /\ BeginIteration(u, op)
    /\ crawler' = <<SingleCrawler(op)>>
    /\ constructed' = Bump(constructed, itemIndex)
    /\ pending' = <<appendTimestampToUrl(u, now)>>
    /\ pc' = "run"
    /\ UNCHANGED <<maxDepth, crawledData, error>>

\* lines 96, 141, 168: no branch matches the operation, the try block ends
StartOther(u, op) ==
    /\ ~UrlMissing(u)
    /\ op \notin {"extractLinks", "extractText", "extractHtml"}
    /\ BeginIteration(u, op)
    /\ crawler' = <<>>
    /\ pc' = "finally"
    /\ UNCHANGED <<maxDepth, pending, crawledData, constructed, error>>

(* --------------------- crawler.run (the dispatcher) -------------------- *)
RunFrame ==
    UNCHANGED <<continueOnFail, nInput, items, itemIndex, crawler, url, operation,
                maxDepth, thrown, raised, output, constructed, teardownCalls, failed,
                truncVars>>

\* where the dispatcher goes once a request is over: the next request of the
\* queue, or the end of run()
AfterRequest(queue) == IF queue = <<>> THEN "afterRun" ELSE "run"

\* run() rejects before any request is made
RunReject(ctx) ==
    /\ pc = "run"
    /\ attempts = 0
    /\ error' = <<[msg |-> "run failed", context |-> ctx]>>
    /\ flags' = flags \cup {"runRejected"}
    /\ pc' = "catch"
    /\ RunFrame
    /\ UNCHANGED <<returnData, crawledData, attempts, fetchCalls, fetched, pushes,
                   pending, requestUrl, page>>

\* the next request of the queue is fetched
Fetch ==
    /\ pc = "run"
    /\ pending # <<>>
    /\ requestUrl' = Head(pending)
    /\ pending' = Tail(pending)
    /\ attempts' = attempts + 1
    /\ fetchCalls' = fetchCalls + 1
    /\ fetched' = fetched \cup {itemIndex}
    /\ pc' = "fetching"
    /\ RunFrame
    /\ UNCHANGED <<returnData, crawledData, error, pushes, flags, page>>

\* the fetch fails (connection error, timeout): the request goes back to the
\* queue for a retry, or it is marked failed and the dispatcher goes on
FetchFail(retry) ==
    /\ pc = "fetching"
    /\ retry => attempts <= MaxRetries
    /\ pending' = IF retry THEN <<requestUrl>> \o pending ELSE pending
    /\ pc' = AfterRequest(pending')
    /\ flags' = IF retry THEN flags ELSE flags \cup {"fetchFailed"}
    /\ RunFrame
    /\ UNCHANGED <<returnData, crawledData, error, attempts, fetchCalls, fetched, pushes,
                   requestUrl, page>>

\* variant: the handler hands the links it found to the dispatcher
HandlerEnqueuesLinks(links) == links

\* lines 106-125: the requests the extractLinks handler adds to the queue
HandlerEnqueues(links) == <<>>

\* lines 106-125: requestHandler of extractLinks on the fetched page
HandleLinks(hrefs) ==
    /\ pc = "fetching"
    /\ operation = "extractLinks"
    /\ page' = hrefs
    /\ LET links == CollectLinks(hrefs, requestUrl, <<>>)
       IN /\ crawledData' = Append(crawledData, [url |-> url, links |-> links])
          /\ pending' = pending \o HandlerEnqueues(links)
    /\ flags' = flags \cup {"handled"}
    /\ pc' = AfterRequest(pending')
    /\ RunFrame
    /\ UNCHANGED <<returnData, error, attempts, fetchCalls, fetched, pushes, requestUrl>>

\* lines 148-163: requestHandler of extractText on the fetched page
HandleText(bodyText) ==
    /\ pc = "fetching"
    /\ operation = "extractText"
    /\ returnData' = Append(returnData, TextRecord(url, truncatedText(bodyText)))
    /\ pushes' = Bump(pushes, itemIndex)
    /\ flags' = flags \cup {"handled"}
    /\ pc' = AfterRequest(pending)
    /\ RunFrame
    /\ UNCHANGED <<crawledData, error, attempts, fetchCalls, fetched, pending, requestUrl,
                   page>>

\* lines 175-189: requestHandler of extractHtml on the fetched page
HandleHtml(body) ==
    /\ pc = "fetching"
    /\ operation = "extractHtml"
    /\ returnData' = Append(returnData, HtmlRecord(url, truncatedHtml(body)))
    /\ pushes' = Bump(pushes, itemIndex)
    /\ flags' = flags \cup {"handled"}
    /\ pc' = AfterRequest(pending)
    /\ RunFrame
    /\ UNCHANGED <<crawledData, error, attempts, fetchCalls, fetched, pending, requestUrl,
                   page>>

\* the request handler raises before it stored anything; the dispatcher
\* retries the request, gives the request up (run() goes on and resolves) or
\* lets the error out of run()
HandlerRaise(how, ctx) ==
    /\ pc = "fetching"
    /\ how = "retry" => attempts <= MaxRetries
    /\ how # "propagate" => ctx = <<>>
    /\ pending' = IF how = "retry" THEN <<requestUrl>> \o pending ELSE pending
    /\ pc' = IF how = "propagate" THEN "catch" ELSE AfterRequest(pending')
    /\ error' = IF how = "propagate"
                THEN <<[msg |-> "handler failed", context |-> ctx]>>
                ELSE error
    /\ flags' = flags \cup {"handlerRaised"}
    /\ RunFrame
    /\ UNCHANGED <<returnData, crawledData, attempts, fetchCalls, fetched, pushes,
                   requestUrl, page>>

(* --------------------------- after the await --------------------------- *)
\* lines 129-140: run() resolved in the extractLinks branch
AfterRunLinks ==
    /\ pc = "afterRun"
    /\ operation = "extractLinks"
    /\ returnData' = Append(returnData, LinksRecord(url, UniqueLinks(crawledData)))
    /\ pushes' = Bump(pushes, itemIndex)
    /\ crawler' = <<>>
    /\ pc' = "finally"
    /\ UNCHANGED <<continueOnFail, nInput, items, itemIndex, url, operation, maxDepth,
                   pending, requestUrl, page, crawledData, error, thrown, raised, output, attempts, constructed,
                   teardownCalls, fetchCalls, flags, failed, fetched, truncVars>>

\* lines 167 / 193: run() resolved in the extractText / extractHtml branch
AfterRunSingle ==
    /\ pc = "afterRun"
    /\ operation \in {"extractText", "extractHtml"}
    /\ crawler' = <<>>
    /\ pc' = "finally"
    /\ UNCHANGED <<continueOnFail, nInput, items, returnData, itemIndex, url, operation,
                   maxDepth, pending, requestUrl, page, crawledData, error, thrown, raised,
                   output, attempts, constructed, teardownCalls, fetchCalls, pushes, flags,
                   failed, fetched, truncVars>>

(* -------------------------------- catch -------------------------------- *)
CatchFrame ==
    UNCHANGED <<continueOnFail, nInput, returnData, itemIndex, crawler, url, operation,
                maxDepth, pending, requestUrl, page, crawledData, error, raised, output,
                attempts, constructed, teardownCalls, fetchCalls, fetched, pushes, truncVars>>

\* lines 196-197: continue-on-failure is on.  getInputData(itemIndex) asks the
\* host for the items of input number itemIndex; the node has one input, so
\* for itemIndex >= 1 the host either fails the lookup or hands back the
\* items of the only input.
CatchContinue(hostRaises) ==
    /\ pc = "catch"
    /\ continueOnFail
    /\ hostRaises => itemIndex >= 1
    /\ ~hostRaises => Len(items) < MaxLen
    /\ items' = IF hostRaises THEN items
                ELSE Append(items, [json |-> items[1].json, error |-> error,
                                    pairedItem |-> <<itemIndex>>])
    /\ thrown' = IF hostRaises
                 THEN <<[msg |-> "input lookup failed", context |-> <<>>]>>
                 ELSE <<>>
    /\ flags' = flags \cup {"caught"}
    /\ failed' = failed \cup {itemIndex}
    /\ pc' = "finally"
    /\ CatchFrame

\* lines 198-206: continue-on-failure is off, the error is thrown on
CatchThrow ==
    /\ pc = "catch"
    /\ ~continueOnFail
    /\ thrown' = <<ErrorToThrow(error[1], itemIndex)>>
    /\ flags' = flags \cup {"caught"}
    /\ failed' = failed \cup {itemIndex}
    /\ pc' = "finally"
    /\ UNCHANGED items
    /\ CatchFrame

(* ------------------------------- finally ------------------------------- *)
\* variant: an error of teardown leaves the finally block
LeavingFinallyUncaught(pendingThrow, teardownThrows) ==
    IF teardownThrows THEN <<[msg |-> "teardown failed", context |-> <<>>]>>
    ELSE pendingThrow

\* lines 208-214: the error that leaves the finally block: teardown runs in
\* its own try / catch, so it is the throw of the catch block, if any
LeavingFinally(pendingThrow, teardownThrows) == pendingThrow

\* lines 207-216: teardown of a crawler that is still set (its error is
\* swallowed), then the pending throw leaves execute or the loop goes on;
\* the block-scoped locals of the iteration cease to exist
Finally(teardownThrows) ==
    /\ pc = "finally"
    /\ teardownThrows => crawler # <<>>
    /\ teardownCalls' = IF crawler # <<>> THEN Bump(teardownCalls, itemIndex)
                        ELSE teardownCalls
    /\ flags' = flags \cup {"finished"} \cup (IF teardownThrows THEN {"teardownThrew"} ELSE {})
    /\ LET leaving == LeavingFinally(thrown, teardownThrows)
       IN IF leaving # <<>>
          THEN /\ raised' = leaving
               /\ pc' = "raised"
               /\ UNCHANGED itemIndex
          ELSE /\ itemIndex' = itemIndex + 1
               /\ pc' = "loop"
               /\ UNCHANGED raised
    /\ crawler' = <<>>
    /\ pending' = <<>>
    /\ page' = <<>>
    /\ url' = ""
    /\ operation' = ""
    /\ maxDepth' = <<>>
    /\ requestUrl' = ""
    /\ crawledData' = <<>>
    /\ error' = <<>>
    /\ thrown' = <<>>
    /\ attempts' = 0
    /\ UNCHANGED <<continueOnFail, nInput, items, returnData, output, constructed,
                   fetchCalls, fetched, pushes, failed, truncVars>>

\* line 218: the loop is over
Return ==
    /\ pc = "loop"
    /\ itemIndex >= Len(items)
    /\ output' = <<returnData>>
    /\ pc' = "returned"
    /\ UNCHANGED <<continueOnFail, nInput, items, returnData, itemIndex, crawler, url,
                   operation, maxDepth, pending, requestUrl, page, crawledData, error, thrown,
                   raised, attempts, constructed, teardownCalls, fetchCalls, pushes, flags,
                   failed, fetched, truncVars>>

Next ==
    \/ \E u \in Urls, op \in Operations : StartInvalid(u, op)
    \/ \E u \in Urls, d \in Depths, now \in Times : StartLinks(u, d, now)
    \/ \E u \in Urls, op \in Operations, now \in Times : StartSingle(u, op, now)
    \/ \E u \in Urls, op \in Operations : StartOther(u, op)
    \/ \E ctx \in LibContexts : RunReject(ctx)
    \/ Fetch
    \/ \E retry \in BOOLEAN : FetchFail(retry)
    \/ \E hrefs \in HrefLists : HandleLinks(hrefs)
    \/ \E b \in Bodies : HandleText(b)
    \/ \E b \in Bodies : HandleHtml(b)
    \/ \E how \in {"retry", "swallow", "propagate"}, ctx \in LibContexts : HandlerRaise(how, ctx)
    \/ AfterRunLinks
    \/ AfterRunSingle
    \/ \E hostRaises \in BOOLEAN : CatchContinue(hostRaises)
    \/ CatchThrow
    \/ \E teardownThrows \in BOOLEAN : Finally(teardownThrows)
    \/ Return

Spec == Init /\ [][Next]_vars

(* ------------- one extractLinks item, over more kinds of pages ---------- *)
InitLinks == Init /\ nInput = 1 /\ ~continueOnFail

NextLinks ==
    \/ \E u \in PageUrls, d \in Depths, now \in Times : StartLinks(u, d, now)
    \/ Fetch
    \/ \E hrefs \in PageHrefLists : HandleLinks(hrefs)
    \/ AfterRunLinks
    \/ \E teardownThrows \in BOOLEAN : Finally(teardownThrows)
    \/ Return

SpecLinks == InitLinks /\ [][NextLinks]_vars

(* ---------------- truncation of one body, on its own ------------------- *)
\* bodies whose length is small or within Slack of a cap, with and without
\* surrounding blanks
TruncLengths(cap) == (0..SmallLen) \cup ((cap - Slack)..(cap + Slack))

TruncBodies(cap) ==
    {pad \o Rep(c, n) \o pad : pad \in {"", " "}, c \in {"a", "b"}, n \in TruncLengths(cap)}

InitTrunc ==
    /\ continueOnFail = FALSE
    /\ nInput = 0
    /\ items = <<>>
    /\ returnData = <<>>
    /\ itemIndex = 0
    /\ pc = "off"
    /\ crawler = <<>>
    /\ url = ""
    /\ operation = ""
    /\ maxDepth = <<>>
    /\ pending = <<>>
    /\ requestUrl = ""
    /\ page = <<>>
    /\ crawledData = <<>>
    /\ error = <<>>
    /\ thrown = <<>>
    /\ raised = <<>>
    /\ output = <<>>
    /\ attempts = 0
    /\ constructed = [i \in Indices |-> 0]
    /\ teardownCalls = [i \in Indices |-> 0]
    /\ fetchCalls = 0
    /\ fetched = {}
    /\ pushes = [i \in Indices |-> 0]
    /\ flags = {}
    /\ failed = {}
    /\ tKind \in {"text", "html"}
    /\ tIn \in TruncBodies(IF tKind = "text" THEN TextCap ELSE HtmlCap)
    /\ tOut = ""
    /\ tpc = "ready"

TruncFrame ==
    UNCHANGED <<continueOnFail, nInput, items, returnData, itemIndex, pc, crawler, url,
                operation, maxDepth, pending, requestUrl, page, crawledData, error, thrown,
                raised, output, attempts, constructed, teardownCalls, fetchCalls, fetched,
                pushes, flags, failed, tKind, tIn>>

\* lines 151-152: the text handler's trimmed and truncated text
TruncateText ==
    /\ tpc = "ready"
    /\ tKind = "text"
    /\ tOut' = truncatedText(tIn)
    /\ tpc' = "done"
    /\ TruncFrame

\* line 178: the html handler's truncated body
TruncateHtml ==
    /\ tpc = "ready"
    /\ tKind = "html"
    /\ tOut' = truncatedHtml(tIn)
    /\ tpc' = "done"
    /\ TruncFrame

NextTrunc == TruncateText \/ TruncateHtml

SpecTrunc == InitTrunc /\ [][NextTrunc]_vars

(* ============================== properties ============================= *)
\* the item the flags, fetchCalls and locals describe: the iteration begun last
CurItem == IF pc \in {"loop", "returned"} THEN itemIndex - 1 ELSE itemIndex

\* the iteration begun last has run through its finally block
CurFinished == "finished" \in flags

\* processing of item i has ended
Ended(i) == i < itemIndex \/ (i = itemIndex /\ pc = "raised")

ToSet(s) == {s[k] : k \in 1..Len(s)}

NoDuplicates(s) == \A a, b \in 1..Len(s) : s[a] = s[b] => a = b

\* C1: every item for which a crawler was constructed has had teardown
\* invoked exactly once when its processing has ended, whatever the outcome.
C1_TeardownExactlyOnce ==
    \A i \in Indices : (Ended(i) /\ constructed[i] >= 1) => teardownCalls[i] = 1

\* C2: with continue-on-failure on, the returned output holds, for every item
\* i that failed, a record with the payload of input item i, the error and
\* the position i, and every input item after i has been processed.
C2_FailureRecordInOutput ==
    (continueOnFail /\ output # <<>>) =>
        \A i \in failed \cap (0..(nInput - 1)) :
            /\ \E k \in 1..Len(output[1]) :
                  /\ "pairedItem" \in DOMAIN output[1][k]
                  /\ output[1][k].pairedItem = <<i>>
                  /\ output[1][k].json = i + 1
                  /\ output[1][k].error # <<>>
            /\ itemIndex >= nInput

\* C3: with continue-on-failure off, once item i has failed execute raises an
\* error annotated with position i; the loop never moves past i, so no
\* crawler is constructed and no fetch is issued for a later item, and
\* execute does not return.
C3_FailureAborts ==
    (~continueOnFail /\ failed # {}) =>
        /\ failed = {itemIndex}
        /\ pc \in {"finally", "raised"}
        /\ pc = "finally" => thrown # <<>> /\ thrown[1].context = <<itemIndex>>
        /\ pc = "raised" => raised # <<>> /\ raised[1].context = <<itemIndex>>
        /\ output = <<>>
        /\ \A j \in Indices : j > itemIndex => constructed[j] = 0 /\ j \notin fetched

C3_Witness ==
    /\ ~continueOnFail
    /\ nInput = 2
    /\ pc = "raised"
    /\ itemIndex = 0
    /\ failed = {0}
    /\ raised[1].msg = "run failed"
    /\ raised[1].context = <<0>>
    /\ constructed[1] = 0

\* C4: for extractText and extractHtml, an item whose fetch of the seed page
\* failed, so that the handler never ran, ends as a failure: its error
\* reached the catch block and no success record was pushed for it.
C4_FetchFailureIsFailure ==
    (/\ CurFinished
     /\ flags \cap {"extractText", "extractHtml"} # {}
     /\ "fetchFailed" \in flags
     /\ "handled" \notin flags) =>
        (CurItem \in failed /\ pushes[CurItem] = 0)

\* C5: for extractLinks, an item for which no page was handled ends as a
\* failure, and no success record (with an empty link list) is pushed for it.
C5_NoPageIsFailure ==
    (/\ CurFinished
     /\ "extractLinks" \in flags
     /\ "emptyUrl" \notin flags
     /\ "handled" \notin flags) =>
        (CurItem \in failed /\ pushes[CurItem] = 0)

\* C6: an item whose url is empty fails with the validation error before any
\* network activity: no crawler is constructed for it and no fetch is issued.
C6_EmptyUrlFailsFirst ==
    "emptyUrl" \in flags =>
        /\ pc \notin {"run", "fetching", "afterRun"}
        /\ crawler = <<>>
        /\ constructed[CurItem] = 0
        /\ fetchCalls = 0
        /\ CurItem \notin fetched
        /\ pc = "catch" => error # <<>> /\ error[1].msg = "URL is required"
        /\ pc # "catch" => CurItem \in failed
        /\ pushes[CurItem] = 0

C6_Witness ==
    /\ "emptyUrl" \in flags
    /\ "extractText" \in flags
    /\ CurFinished
    /\ CurItem \in failed
    /\ constructed[CurItem] = 0
    /\ fetchCalls = 0

\* C7: every item processed to the end has exactly one terminal outcome:
\* one success record, or one failure, never both and never none.
C7_ExactlyOneOutcome ==
    CurFinished =>
        pushes[CurItem] + (IF CurItem \in failed THEN 1 ELSE 0) = 1

\* C8: the links of the extractLinks success record hold no duplicates, and
\* as a set they are exactly the links the handler invocations accumulated.
C8_LinksAreTheSetOfAccumulated ==
    (pc = "finally" /\ operation = "extractLinks" /\ "caught" \notin flags) =>
        LET links == returnData[Len(returnData)].data.links
        IN /\ NoDuplicates(links)
           /\ ToSet(links) = UNION {ToSet(crawledData[k].links) : k \in 1..Len(crawledData)}
           /\ returnData[Len(returnData)].status = "success"

C8_Witness ==
    /\ pc = "finally"
    /\ operation = "extractLinks"
    /\ "caught" \notin flags
    /\ Len(crawledData) = 1
    /\ crawledData[1].links = <<"https://x.test/a", "https://y.test/", "https://x.test/a">>
    /\ returnData[Len(returnData)].data.links = <<"https://x.test/a", "https://y.test/">>

\* C9: truncation with cap 50000 (text) and 100000 (html): an input of at
\* most cap characters is returned unchanged; a longer input is returned as
\* its first cap characters followed by "..."; the result is never longer
\* than cap + 3.
C9_Truncation ==
    tpc = "done" =>
        LET cap == IF tKind = "text" THEN 50000 ELSE 100000
            input == IF tKind = "text" THEN Trim(tIn) ELSE tIn
        IN /\ Len(input) <= cap => tOut = input
           /\ Len(input) > cap =>
                 /\ Len(tOut) = cap + 3
                 /\ SubSeq(tOut, 1, cap) = SubSeq(input, 1, cap)
                 /\ SubSeq(tOut, cap + 1, cap + 3) = "..."
           /\ Len(tOut) <= cap + 3

C9_Witness ==
    /\ tpc = "done"
    /\ tKind = "text"
    /\ Len(Trim(tIn)) = 50001
    /\ Len(tOut) = 50003

\* C10: the request ceiling of the extractLinks crawler is 50 for maxDepth 1
\* and 100 for every maxDepth >= 2; that of the extractText and extractHtml
\* crawlers is 1.
C10_RequestCeiling ==
    crawler # <<>> =>
        /\ (operation = "extractLinks" /\ maxDepth[1] >= 1) =>
               crawler[1].maxRequestsPerCrawl = (IF maxDepth[1] = 1 THEN 50 ELSE 100)
        /\ operation \in {"extractText", "extractHtml"} =>
               crawler[1].maxRequestsPerCrawl = 1

C10_Witness ==
    /\ crawler # <<>>
    /\ operation = "extractLinks"
    /\ maxDepth = <<3>>
    /\ crawler[1].maxRequestsPerCrawl = 100

\* the messages of the errors an item's processing can fail with
ItemErrorMsgs == {"URL is required", "run failed", "handler failed"}

\* C11: an error of teardown is never seen by the caller and never takes the
\* place of the item's own error: after a teardown that failed, the error
\* that leaves execute is the one the catch block threw, with the message of
\* the item's error when continue-on-failure is off; with continue-on-failure
\* on, the item appended last carries the item's error; and an item that did
\* not fail does not make execute fail.
C11_TeardownErrorInvisible ==
    ("teardownThrew" \in flags /\ CurFinished) =>
        /\ pc = "raised" =>
              /\ raised # <<>>
              /\ raised[1].msg # "teardown failed"
              /\ ~continueOnFail =>
                    /\ raised[1].msg \in ItemErrorMsgs
                    /\ raised[1].context = <<itemIndex>>
        /\ (pc # "raised" /\ CurItem \in failed) =>
              /\ continueOnFail
              /\ items[Len(items)].error # <<>>
              /\ items[Len(items)].error[1].msg \in ItemErrorMsgs
              /\ items[Len(items)].pairedItem = <<CurItem>>
        /\ CurItem \notin failed => pc # "raised"

C11_Witness ==
    /\ "teardownThrew" \in flags
    /\ pc = "raised"
    /\ ~continueOnFail
    /\ raised[1].msg = "handler failed"
    /\ teardownCalls[itemIndex] = 1

\* C12: an item whose request handler raised on the seed page, and never
\* completed on it, ends as a failure: the error reached the catch block and
\* no success record was pushed for the item.
C12_HandlerErrorIsFailure ==
    (CurFinished /\ "handlerRaised" \in flags /\ "handled" \notin flags) =>
        /\ CurItem \in failed
        /\ pushes[CurItem] = 0

\* the links the handler is to store for a page: the resolved forms, in
\* document order, of the hrefs that are not empty and that new URL accepts
GoodLinks(hrefs, base) ==
    LET Normalizes(h) == h # "" /\ NewURLHref(h, base) # <<>>
        kept == SelectSeq(hrefs, Normalizes)
    IN [k \in 1..Len(kept) |-> NewURLHref(kept[k], base)[1]]

HasBadHref(hrefs, base) ==
    \E k \in 1..Len(hrefs) : hrefs[k] # "" /\ NewURLHref(hrefs[k], base) = <<>>

\* C14: in the extractLinks handler an href that cannot be resolved is
\* skipped without raising: the handler completes, every other href of the
\* page that resolves is stored, in document order, and the item ends with a
\* success record holding those links and not as a failure.
C14_BadHrefSkipped ==
    (operation = "extractLinks" /\ "handled" \in flags /\ pc \in {"afterRun", "finally"}
        /\ HasBadHref(page, requestUrl)) =>
        /\ crawledData # <<>>
        /\ crawledData[Len(crawledData)].links = GoodLinks(page, requestUrl)
        /\ pc = "finally" =>
              /\ itemIndex \notin failed
              /\ thrown = <<>>
              /\ pushes[itemIndex] = 1
              /\ ToSet(returnData[Len(returnData)].data.links)
                    = ToSet(GoodLinks(page, requestUrl))

C14_Witness ==
    /\ pc = "finally"
    /\ operation = "extractLinks"
    /\ page = <<"/a", "http://[">>
    /\ requestUrl = "https://x.test/?_=1730000000"
    /\ crawledData # <<>>
    /\ crawledData[1].links = <<"https://x.test/a">>
    /\ pushes[0] = 1
    /\ failed = {}

\* C15: every crawler execute constructs has a request ceiling of at least 1
\* and a concurrency of at least 1, whatever the operation and the maxDepth.
C15_LimitsAtLeastOne ==
    crawler # <<>> =>
        /\ crawler[1].maxRequestsPerCrawl >= 1
        /\ crawler[1].maxConcurrency >= 1

\* the one request of a run: the item's url with the cache-busting parameter
SeedRequests ==
    {url \o (IF Includes(url, "?") THEN "&" ELSE "?") \o "_=" \o ToString(now) :
        now \in Times}

\* C16: in every run, whatever the operation and the maxDepth, the only
\* request ever in the queue or being fetched is the item's url with the
\* cache-busting parameter appended; the links found on a page are never put
\* in the queue, and at most one page is handled for an item.
C16_OnlySeedScheduled ==
    /\ pc \in {"run", "fetching", "afterRun"} =>
          /\ Len(pending) <= 1
          /\ \A k \in 1..Len(pending) : pending[k] \in SeedRequests
          /\ pc = "run" => pending # <<>>
          /\ pc = "fetching" => requestUrl \in SeedRequests /\ pending = <<>>
          /\ pc = "afterRun" => pending = <<>>
    /\ Len(crawledData) <= 1
    /\ \A i \in Indices : pushes[i] <= 1

C16_Witness ==
    /\ pc = "afterRun"
    /\ operation = "extractLinks"
    /\ maxDepth = <<3>>
    /\ requestUrl = "https://x.test/?_=1730000000"
    /\ crawledData # <<>>
    /\ crawledData[1].links = <<"https://x.test/a", "https://x.test/a">>
    /\ pending = <<>>

\* C17: during a run whose ceiling is at least 1, the number of fetches made
\* so far, retries included, is at most the crawler's request ceiling, and
\* the number of fetches in flight is at most its concurrency.
C17_FetchesWithinLimits ==
    (crawler # <<>> /\ crawler[1].maxRequestsPerCrawl >= 1) =>
        /\ fetchCalls <= crawler[1].maxRequestsPerCrawl
        /\ (IF pc = "fetching" THEN 1 ELSE 0) <= crawler[1].maxConcurrency

\* C18: the crawls are strictly sequential: a crawler exists only while its
\* own item is being processed, no item has more than one crawler, no crawler
\* is constructed for an item before every earlier item has been through its
\* catch and finally blocks, and nothing of a run outlives its iteration.
C18_SessionsSequential ==
    /\ \A i \in Indices :
          /\ constructed[i] <= 1
          /\ constructed[i] = 1 => i <= itemIndex
          /\ (constructed[i] = 1 /\ i < itemIndex) => teardownCalls[i] <= 1
    /\ crawler # <<>> =>
          /\ pc \in {"run", "fetching", "afterRun", "catch", "finally"}
          /\ constructed[itemIndex] = 1
    /\ pc \in {"loop", "raised", "returned"} =>
          /\ crawler = <<>>
          /\ pending = <<>>
          /\ crawledData = <<>>
    /\ (pc = "loop" /\ itemIndex > 0) => CurFinished

C18_Witness ==
    /\ pc = "fetching"
    /\ itemIndex = 1
    /\ constructed[0] = 1
    /\ constructed[1] = 1
    /\ crawler # <<>>
    /\ 0 \in fetched

\* C19: the loop of execute performs as many iterations as input items were
\* supplied, also with continue-on-failure on and items that fail.
C19_IterationsEqualInput ==
    /\ itemIndex <= nInput
    /\ pc = "returned" => itemIndex = nInput

====
